---- MODULE Spec2Model ----
(***************************************************************************)
(* Stock screener: the stock and sector tables, StockService               *)
(* (app/services/stock_service.py), SectorService                          *)
(* (app/services/sector_service.py), MockDataService                       *)
(* (app/services/mock_data_service.py) and the screening handler of the    *)
(* page (app/stock_screener.py).                                           *)
(*                                                                         *)
(* Encoding.                                                               *)
(*   Optional[T]   a sequence of length <= 1: << >> is None, <<v>> is v.   *)
(*   str           a sequence of one-letter strings over Letters.          *)
(*   Decimal       an integer: ratios and yields in tenths (85 is 8.5),    *)
(*                 market capitalisation in millions of USD.               *)
(*   the table     a sequence in insertion (row id) order, which is the    *)
(*                 order of an unordered SELECT.                           *)
(*   a call        ends in [kind |-> "return", value |-> v] or             *)
(*                 [kind |-> "raise", exc |-> name].                       *)
(*                                                                         *)
(* Execution is synchronous request/response: one operation runs at a      *)
(* time, atomically, and its caller takes the outcome before the next      *)
(* operation starts.  SpecRace alone lets two runs of the mock loader      *)
(* interleave, one service call per step.                                  *)
(***************************************************************************)
EXTENDS Integers, Sequences, FiniteSets, TLC

VARIABLES
    stocks,   \* rows of table "stocks", in row id order
    sectors,  \* rows of table "sectors", in row id order
    call,     \* the operation that has run, with its arguments; NoCall between operations
    ret,      \* what that operation returned or raised
    pages,    \* the pages a caller has collected while paging through one search
    runs      \* the position and the locals of each concurrent run of the mock loader

vars == <<stocks, sectors, call, ret, pages, runs>>

----------------------------------------------------------------------------
(* Bounds of the model *)

MaxStocks == 2   \* rows the table may hold
MaxLimit  == 1   \* largest explicit page size tried
MaxOffset == 2   \* largest page offset tried

----------------------------------------------------------------------------
(* Python values *)

None == << >>
Some(v) == <<v>>

Return(v) == [kind |-> "return", value |-> v]
Raise(e)  == [kind |-> "raise", exc |-> e]

Min(a, b) == IF a < b THEN a ELSE b
Max(a, b) == IF a > b THEN a ELSE b

\* str.upper() and str.lower(), letter by letter
UpperChar(c) == CASE c = "a" -> "A" [] c = "b" -> "B" [] OTHER -> c
LowerChar(c) == CASE c = "A" -> "a" [] c = "B" -> "b" [] OTHER -> c
upper(s) == [i \in 1..Len(s) |-> UpperChar(s[i])]
lower(s) == [i \in 1..Len(s) |-> LowerChar(s[i])]

\* Python's `needle in hay` on str
contains(hay, needle) ==
    \E i \in 0..(Len(hay) - Len(needle)) :
        SubSeq(hay, i + 1, i + Len(needle)) = needle

\* Python's seq[start:end] for ints (negative indices count from the end)
SliceIndex(i, n) == IF i < 0 THEN Max(n + i, 0) ELSE Min(i, n)
slice(seq, start, end) ==
    LET lo == SliceIndex(start, Len(seq))
        hi == SliceIndex(end, Len(seq))
    IN  IF lo >= hi THEN << >> ELSE SubSeq(seq, lo + 1, hi)

Reverse(seq) == [i \in 1..Len(seq) |-> seq[Len(seq) + 1 - i]]

----------------------------------------------------------------------------
(* MarketCapEnum and the breakpoints of create_stock, in millions of USD *)

LARGE_CAP == "Large Cap"
MID_CAP   == "Mid Cap"
SMALL_CAP == "Small Cap"
MICRO_CAP == "Micro Cap"

\* the members as str compare by value: this is their order under <
MarketCapEnumOrder == <<LARGE_CAP, MICRO_CAP, MID_CAP, SMALL_CAP>>

LargeCapMin == 10000
MidCapMin   == 2000
SmallCapMin == 300

\* create_stock, lines 34-43: `if stock_data.market_cap:` is Python truthiness,
\* false for None and for Decimal 0
categorize(market_cap) ==
    IF market_cap # None /\ market_cap[1] # 0
    THEN IF market_cap[1] >= LargeCapMin THEN Some(LARGE_CAP)
         ELSE IF market_cap[1] >= MidCapMin THEN Some(MID_CAP)
         ELSE IF market_cap[1] >= SmallCapMin THEN Some(SMALL_CAP)
         ELSE Some(MICRO_CAP)
    ELSE None

----------------------------------------------------------------------------
(* Inputs *)

StockData(t, c, sec, pe, pb, div, mcap) ==
    [ticker |-> t, company_name |-> c, sector_id |-> sec, pe_ratio |-> pe,
     pb_ratio |-> pb, dividend_yield |-> div, market_cap |-> mcap]

\* StockCreate payloads tried: tickers in both casings, known, unknown and
\* zero metrics, equal P/E for ties, a market cap on each side of the breakpoints
StockInputs ==
    { StockData(<<"a">>,      <<"A", "b">>, Some(1), Some(85),  Some(12), Some(45), Some(10000)),
      StockData(<<"A">>,      <<"b">>,      None,    None,      None,     None,     None),
      StockData(<<"A", "b">>, <<"a", "B">>, Some(1), Some(85),  Some(15), Some(0),  Some(0)),
      StockData(<<"b">>,      <<"B">>,      Some(2), Some(285), None,     None,     Some(299)),
      StockData(<<"B">>,      <<"a", "b">>, None,    None,      Some(12), Some(30), Some(2000)) }

StockFilter(sec, mcc, maxpe, maxpb, mindiv, minmc, maxmc, ts, cs, act) ==
    [sector_id |-> sec, market_cap_category |-> mcc, max_pe_ratio |-> maxpe,
     max_pb_ratio |-> maxpb, min_dividend_yield |-> mindiv,
     min_market_cap |-> minmc, max_market_cap |-> maxmc,
     ticker_search |-> ts, company_search |-> cs, is_active |-> act]

\* StockFilter(): every field at its default
DefaultFilter ==
    StockFilter(None, None, None, None, None, None, None, None, None, Some(TRUE))

\* the filters tried: none, the default, the default with one field set, and
\* the two valuation bounds max_pe_ratio and min_dividend_yield together
FilterInputs ==
    {None, Some(DefaultFilter)}
    \cup { Some([DefaultFilter EXCEPT !.sector_id = Some(v)]) : v \in {1} }
    \cup { Some([DefaultFilter EXCEPT !.market_cap_category = Some(v)]) :
             v \in {MICRO_CAP} }
    \cup { Some([DefaultFilter EXCEPT !.max_pe_ratio = Some(v)]) : v \in {85} }
    \cup { Some([DefaultFilter EXCEPT !.max_pb_ratio = Some(v)]) : v \in {12} }
    \cup { Some([DefaultFilter EXCEPT !.min_dividend_yield = Some(v)]) : v \in {0, 30} }
    \cup { Some([DefaultFilter EXCEPT !.min_market_cap = Some(v)]) : v \in {300} }
    \cup { Some([DefaultFilter EXCEPT !.max_market_cap = Some(v)]) : v \in {2000} }
    \cup { Some([DefaultFilter EXCEPT !.ticker_search = Some(v)]) :
             v \in {<<"a">>, <<"a", "B">>} }
    \cup { Some([DefaultFilter EXCEPT !.company_search = Some(v)]) :
             v \in {<<"a", "B">>} }
    \cup { Some([DefaultFilter EXCEPT !.is_active = Some(v)]) : v \in {FALSE} }
    \cup { Some([DefaultFilter EXCEPT !.max_pe_ratio = Some(85),
                                      !.min_dividend_yield = Some(30)]) }

\* StockSort: a field name and a direction matching ^(asc|desc)$;
\* "overall_score" is no attribute of Stock
SortFields == {"pe_ratio", "market_cap_category", "overall_score"}
SortInputs ==
    {None} \cup { Some([field |-> f, direction |-> d]) :
                    f \in SortFields, d \in {"asc", "desc"} }

DefaultLimit == 100
LimitInputs  == (0..MaxLimit) \cup {DefaultLimit}
OffsetInputs == 0..MaxOffset

----------------------------------------------------------------------------
(* The stock table *)

\* select(Stock).where(Stock.is_active == True)
ActiveStocks(table) == SelectSeq(table, LAMBDA s : s.is_active)

\* get_stock_by_ticker: the row whose ticker equals ticker.upper(), or None
\* faulty variant: the ticker is looked up as given
get_stock_by_ticker_as_given(table, ticker) ==
    IF \E i \in 1..Len(table) : table[i].ticker = ticker
    THEN Some(table[CHOOSE i \in 1..Len(table) : table[i].ticker = ticker])
    ELSE None

get_stock_by_ticker(table, ticker) ==
    IF \E i \in 1..Len(table) : table[i].ticker = upper(ticker)
    THEN Some(table[CHOOSE i \in 1..Len(table) : table[i].ticker = upper(ticker)])
    ELSE None

\* faulty variant: the ticker is stored as given
StoredTicker_as_given(stock_data) == stock_data.ticker

\* faulty variant: the ticker is stored in lower case
StoredTicker_lower(stock_data) == lower(stock_data.ticker)

\* the ticker stored by create_stock
StoredTicker(stock_data) == upper(stock_data.ticker)

\* the Stock row built by create_stock for the next row id
NewStock(table, stock_data) ==
    [id                  |-> Len(table) + 1,
     ticker              |-> StoredTicker(stock_data),
     company_name        |-> stock_data.company_name,
     sector_id           |-> stock_data.sector_id,
     pe_ratio            |-> stock_data.pe_ratio,
     pb_ratio            |-> stock_data.pb_ratio,
     dividend_yield      |-> stock_data.dividend_yield,
     market_cap          |-> stock_data.market_cap,
     market_cap_category |-> categorize(stock_data.market_cap),
     is_active           |-> TRUE]

\* faulty variant: no unique index on Stock.ticker
TickerTaken_no_index(table, ticker) == FALSE

\* the unique index on Stock.ticker rejects the commit
TickerTaken(table, ticker) == \E i \in 1..Len(table) : table[i].ticker = ticker

\* StockService.create_stock: the table afterwards and the outcome of the call
create_stock(table, stock_data) ==
    IF TickerTaken(table, StoredTicker(stock_data))
    THEN [stocks |-> table, ret |-> Raise("IntegrityError")]
    ELSE [stocks |-> Append(table, NewStock(table, stock_data)),
          ret    |-> Return(NewStock(table, stock_data))]

----------------------------------------------------------------------------
(* search_and_filter_stocks *)

\* Python truthiness of an Optional[str]: None and "" are false
TruthyStr(opt) == opt # None /\ opt[1] # << >>

\* faulty variant: a stock with unknown P/E fails the max_pe_ratio predicate
include_pe_unknown_fails(stock, filters) ==
    IF filters = None THEN TRUE
    ELSE LET f == filters[1] IN
      IF TruthyStr(f.ticker_search)
         /\ ~contains(stock.ticker, upper(f.ticker_search[1])) THEN FALSE
      ELSE IF TruthyStr(f.company_search)
         /\ ~contains(lower(stock.company_name), lower(f.company_search[1])) THEN FALSE
      ELSE IF f.sector_id # None /\ stock.sector_id # f.sector_id THEN FALSE
      ELSE IF f.market_cap_category # None
         /\ stock.market_cap_category # f.market_cap_category THEN FALSE
      ELSE IF f.max_pe_ratio # None
         /\ (stock.pe_ratio = None \/ stock.pe_ratio[1] > f.max_pe_ratio[1]) THEN FALSE
      ELSE IF f.max_pb_ratio # None
         /\ stock.pb_ratio # None /\ stock.pb_ratio[1] > f.max_pb_ratio[1] THEN FALSE
      ELSE IF f.min_dividend_yield # None
         /\ (stock.dividend_yield = None
             \/ stock.dividend_yield[1] < f.min_dividend_yield[1]) THEN FALSE
      ELSE TRUE

\* faulty variant: a dividend yield equal to the minimum fails
include_dividend_exclusive(stock, filters) ==
    IF filters = None THEN TRUE
    ELSE LET f == filters[1] IN
      IF TruthyStr(f.ticker_search)
         /\ ~contains(stock.ticker, upper(f.ticker_search[1])) THEN FALSE
      ELSE IF TruthyStr(f.company_search)
         /\ ~contains(lower(stock.company_name), lower(f.company_search[1])) THEN FALSE
      ELSE IF f.sector_id # None /\ stock.sector_id # f.sector_id THEN FALSE
      ELSE IF f.market_cap_category # None
         /\ stock.market_cap_category # f.market_cap_category THEN FALSE
      ELSE IF f.max_pe_ratio # None
         /\ stock.pe_ratio # None /\ stock.pe_ratio[1] > f.max_pe_ratio[1] THEN FALSE
      ELSE IF f.max_pb_ratio # None
         /\ stock.pb_ratio # None /\ stock.pb_ratio[1] > f.max_pb_ratio[1] THEN FALSE
      ELSE IF f.min_dividend_yield # None
         /\ (stock.dividend_yield = None
             \/ stock.dividend_yield[1] <= f.min_dividend_yield[1]) THEN FALSE
      ELSE TRUE

\* lines 79-121: the predicates in the order of the code, each one ending the
\* iteration for the stock (include = False; continue) when it fails
include(stock, filters) ==
    IF filters = None THEN TRUE
    ELSE LET f == filters[1] IN
      IF TruthyStr(f.ticker_search)
         /\ ~contains(stock.ticker, upper(f.ticker_search[1])) THEN FALSE
      ELSE IF TruthyStr(f.company_search)
         /\ ~contains(lower(stock.company_name), lower(f.company_search[1])) THEN FALSE
      ELSE IF f.sector_id # None /\ stock.sector_id # f.sector_id THEN FALSE
      ELSE IF f.market_cap_category # None
         /\ stock.market_cap_category # f.market_cap_category THEN FALSE
      ELSE IF f.max_pe_ratio # None
         /\ stock.pe_ratio # None /\ stock.pe_ratio[1] > f.max_pe_ratio[1] THEN FALSE
      ELSE IF f.max_pb_ratio # None
         /\ stock.pb_ratio # None /\ stock.pb_ratio[1] > f.max_pb_ratio[1] THEN FALSE
      ELSE IF f.min_dividend_yield # None
         /\ (stock.dividend_yield = None
             \/ stock.dividend_yield[1] < f.min_dividend_yield[1]) THEN FALSE
      ELSE TRUE

\* lines 69-121: the scan of active rows, then the filter loop
filtered_stocks(table, filters) ==
    SelectSeq(ActiveStocks(table), LAMBDA s : include(s, filters))

\* the attributes of a Stock row by Python type
DecimalFields == {"pe_ratio", "pb_ratio", "dividend_yield", "market_cap"}
StrFields     == {"ticker", "company_name", "market_cap_category"}
OptionalFields ==
    DecimalFields \cup {"sector_id", "market_cap_category"}

\* getattr(stock, name, None): the attribute as an Optional, None when the row
\* has no such attribute
getattr(stock, name) ==
    IF name \notin DOMAIN stock THEN None
    ELSE IF name \in OptionalFields THEN stock[name]
    ELSE Some(stock[name])

\* sort keys: a float (inf is -1, 0 or 1 for -inf, finite, +inf), an int or a str
FloatKey(inf, v) == [type |-> "float", inf |-> inf, val |-> v]
float(decimal)   == FloatKey(0, decimal)

\* faulty variant: a missing value is +inf in both directions
sort_key_missing_is_inf(stock, sort_by) ==
    LET value == getattr(stock, sort_by.field) IN
    IF value = None THEN FloatKey(1, 0)
    ELSE IF sort_by.field \in DecimalFields THEN float(value[1])
    ELSE IF sort_by.field \in StrFields
         THEN [type |-> "str", inf |-> 0, val |-> value[1]]
         ELSE [type |-> "int", inf |-> 0, val |-> value[1]]

\* lines 126-130
sort_key(stock, sort_by) ==
    LET value == getattr(stock, sort_by.field) IN
    IF value = None
    THEN IF sort_by.direction = "asc" THEN FloatKey(1, 0) ELSE FloatKey(-1, 0)
    ELSE IF sort_by.field \in DecimalFields THEN float(value[1])
    ELSE IF sort_by.field \in StrFields
         THEN [type |-> "str", inf |-> 0, val |-> value[1]]
         ELSE [type |-> "int", inf |-> 0, val |-> value[1]]

\* Python orders float with int, and str with str; float < str is a TypeError
Comparable(k1, k2) == (k1.type = "str") = (k2.type = "str")

StrRank(v) == CHOOSE i \in 1..Len(MarketCapEnumOrder) : MarketCapEnumOrder[i] = v

\* k1 < k2 for comparable keys
KeyLess(k1, k2) ==
    IF k1.type = "str" THEN StrRank(k1.val) < StrRank(k2.val)
    ELSE IF k1.inf # k2.inf THEN k1.inf < k2.inf
    ELSE k1.inf = 0 /\ k1.val < k2.val

\* one step of a stable ascending sort of <<key, item>> pairs: the pair goes
\* before the first pair with a greater key, after every pair with an equal key
InsertByKey(sorted, pair) ==
    LET greater == {i \in 1..Len(sorted) : KeyLess(pair[1], sorted[i][1])}
        at == IF greater = {} THEN Len(sorted) + 1
              ELSE CHOOSE i \in greater : \A j \in greater : i <= j
    IN  SubSeq(sorted, 1, at - 1) \o <<pair>> \o SubSeq(sorted, at, Len(sorted))

RECURSIVE StableSort(_)
StableSort(pairs) ==
    IF pairs = << >> THEN << >>
    ELSE InsertByKey(StableSort(SubSeq(pairs, 1, Len(pairs) - 1)), pairs[Len(pairs)])

\* faulty variant: descending order by reversing the ascending result
list_sort_reverse_after(pairs, reverse) ==
    IF reverse THEN Reverse(StableSort(pairs)) ELSE StableSort(pairs)

\* list.sort(key=..., reverse=...): a stable sort; with reverse=True the list
\* is reversed before and after the ascending sort, which keeps equal keys in
\* their original order
list_sort(pairs, reverse) ==
    IF reverse THEN Reverse(StableSort(Reverse(pairs))) ELSE StableSort(pairs)

\* the decorated list that list.sort orders
KeyedStocks(filtered, sort_by) ==
    [i \in 1..Len(filtered) |-> <<sort_key(filtered[i], sort_by), filtered[i]>>]

\* faulty variant: getattr without a default, so that the key of any stock
\* raises when the row has no attribute of that name
SortRaises_missing_attribute(filtered, sort_by) ==
    \/ filtered # << >> /\ sort_by.field \notin DOMAIN filtered[1]
    \/ \E i, j \in 1..Len(filtered) :
          ~Comparable(sort_key(filtered[i], sort_by), sort_key(filtered[j], sort_by))

\* line 132 raises TypeError when the sort must compare a float key with a str
\* key, which it must as soon as both occur among the keys
SortRaises(filtered, sort_by) ==
    \E i, j \in 1..Len(filtered) :
        ~Comparable(sort_key(filtered[i], sort_by), sort_key(filtered[j], sort_by))

\* line 124: `if sort_by and sort_by.field`
Sorting(sort_by) == sort_by # None /\ sort_by[1].field # ""

\* lines 124-132: filtered_stocks after the optional sort
sorted_stocks(filtered, sort_by) ==
    IF Sorting(sort_by)
    THEN LET done == list_sort(KeyedStocks(filtered, sort_by[1]),
                               sort_by[1].direction = "desc")
         IN  [i \in 1..Len(done) |-> done[i][2]]
    ELSE filtered

\* faulty variant: the slice ends at limit
paginated_stocks_end_is_limit(sorted, limit, offset) == slice(sorted, offset, limit)

\* faulty variant: the slice includes the row at its end
paginated_stocks_end_inclusive(sorted, limit, offset) ==
    slice(sorted, offset, offset + limit + 1)

\* lines 137-139
paginated_stocks(sorted, limit, offset) == slice(sorted, offset, offset + limit)

\* faulty variant: the total is counted after pagination
search_result_counts_page(sorted, limit, offset) ==
    Return(<<paginated_stocks(sorted, limit, offset),
             Len(paginated_stocks(sorted, limit, offset))>>)

\* lines 134-141: (paginated_stocks, total_count)
search_result(sorted, limit, offset) ==
    Return(<<paginated_stocks(sorted, limit, offset), Len(sorted)>>)

\* lines 63-141
search_and_filter_stocks(table, filters, sort_by, limit, offset) ==
    LET filtered == filtered_stocks(table, filters) IN
    IF Sorting(sort_by) /\ SortRaises(filtered, sort_by[1])
    THEN Raise("TypeError")
    ELSE search_result(sorted_stocks(filtered, sort_by), limit, offset)

----------------------------------------------------------------------------
(* The sector table *)

SectorData(n, pe, pb, div) ==
    [name |-> n, average_pe_ratio |-> pe, average_pb_ratio |-> pb,
     average_dividend_yield |-> div]

\* the Sector row built by Sector(**sector_data) for the next row id
NewSector(table, sector_data) ==
    [id                     |-> Len(table) + 1,
     name                   |-> sector_data.name,
     average_pe_ratio       |-> sector_data.average_pe_ratio,
     average_pb_ratio       |-> sector_data.average_pb_ratio,
     average_dividend_yield |-> sector_data.average_dividend_yield]

\* the unique index on Sector.name rejects the commit
NameTaken(table, name) == \E i \in 1..Len(table) : table[i].name = name

\* SectorService.get_sector_by_id: session.get(Sector, sector_id)
get_sector_by_id(table, sector_id) ==
    IF \E i \in 1..Len(table) : table[i].id = sector_id
    THEN Some(table[CHOOSE i \in 1..Len(table) : table[i].id = sector_id])
    ELSE None

\* SectorService.get_sector_by_name: the first row of that name
get_sector_by_name(table, name) ==
    IF \E i \in 1..Len(table) : table[i].name = name
    THEN Some(table[CHOOSE i \in 1..Len(table) :
                      /\ table[i].name = name
                      /\ \A j \in 1..(i - 1) : table[j].name # name])
    ELSE None

----------------------------------------------------------------------------
(* screen_undervalued_stocks *)

\* lines 148-149: Decimal("1.5") and Decimal("3.0"), in tenths
max_pb       == 15
min_dividend == 30

\* Python truthiness of an Optional number: None and 0 are false
TruthyNum(opt) == opt # None /\ opt[1] # 0

\* lines 159 and 164-167: the sector is looked up by the stock's sector_id;
\* `stock.sector_id` and `sector.average_pe_ratio` are tested by truthiness
is_undervalued_pe(stock, sector_table) ==
    IF stock.pe_ratio # None /\ TruthyNum(stock.sector_id)
    THEN LET sector == get_sector_by_id(sector_table, stock.sector_id[1]) IN
         IF sector # None /\ TruthyNum(sector[1].average_pe_ratio)
         THEN stock.pe_ratio[1] < sector[1].average_pe_ratio[1]
         ELSE FALSE
    ELSE FALSE

\* lines 160 and 170-171
is_undervalued_pb(stock) ==
    IF stock.pb_ratio # None THEN stock.pb_ratio[1] < max_pb ELSE FALSE

\* faulty variant: the dividend threshold itself does not count
has_high_dividend_above(stock) ==
    IF stock.dividend_yield # None THEN stock.dividend_yield[1] > min_dividend
    ELSE FALSE

\* lines 161 and 174-175
has_high_dividend(stock) ==
    IF stock.dividend_yield # None THEN stock.dividend_yield[1] >= min_dividend
    ELSE FALSE

\* faulty variant: the dividend flag weighs as much as the other two
score_dividend_weighs_40(pe_flag, pb_flag, dividend_flag) ==
    (IF pe_flag THEN 40 ELSE 0) + (IF pb_flag THEN 40 ELSE 0)
        + (IF dividend_flag THEN 40 ELSE 0)

\* lines 178-186
score(pe_flag, pb_flag, dividend_flag) ==
    (IF pe_flag THEN 40 ELSE 0) + (IF pb_flag THEN 40 ELSE 0)
        + (IF dividend_flag THEN 20 ELSE 0)

\* lines 190-192
sector_name(stock, sector_table) ==
    IF TruthyNum(stock.sector_id)
       /\ get_sector_by_id(sector_table, stock.sector_id[1]) # None
    THEN Some(get_sector_by_id(sector_table, stock.sector_id[1])[1].name)
    ELSE None

\* lines 194-212: the StockScreenResult of one stock
StockScreenResult(stock, sector_table) ==
    [stock_id          |-> stock.id,
     ticker            |-> stock.ticker,
     company_name      |-> stock.company_name,
     sector_name       |-> sector_name(stock, sector_table),
     pe_ratio          |-> stock.pe_ratio,
     pb_ratio          |-> stock.pb_ratio,
     dividend_yield    |-> stock.dividend_yield,
     market_cap        |-> stock.market_cap,
     is_undervalued_pe |-> is_undervalued_pe(stock, sector_table),
     is_undervalued_pb |-> is_undervalued_pb(stock),
     has_high_dividend |-> has_high_dividend(stock),
     overall_score     |-> score(is_undervalued_pe(stock, sector_table),
                                 is_undervalued_pb(stock),
                                 has_high_dividend(stock))]

\* lines 157-212: one result per scanned stock with a score above 0, in scan order
RECURSIVE screen_results(_, _)
screen_results(scanned, sector_table) ==
    IF scanned = << >> THEN << >>
    ELSE LET result == StockScreenResult(scanned[Len(scanned)], sector_table)
             before == screen_results(SubSeq(scanned, 1, Len(scanned) - 1),
                                      sector_table)
         IN  IF result.overall_score > 0 THEN Append(before, result) ELSE before

\* the sort key of line 215: a Decimal
DecimalKey(v) == [type |-> "decimal", inf |-> 0, val |-> v]

\* faulty variant: sorted ascending, then reversed
sort_results_reversed_after(results) ==
    LET keyed == [i \in 1..Len(results) |->
                    <<DecimalKey(results[i].overall_score), results[i]>>]
        sorted == Reverse(StableSort(keyed))
    IN  [i \in 1..Len(sorted) |-> sorted[i][2]]

\* line 215: screen_results.sort(key=lambda x: x.overall_score, reverse=True)
sort_results(results) ==
    LET keyed == [i \in 1..Len(results) |->
                    <<DecimalKey(results[i].overall_score), results[i]>>]
        sorted == list_sort(keyed, TRUE)
    IN  [i \in 1..Len(sorted) |-> sorted[i][2]]

\* lines 143-216
screen_undervalued_stocks(table, sector_table) ==
    Return(sort_results(screen_results(ActiveStocks(table), sector_table)))

----------------------------------------------------------------------------
(* get_stock_statistics *)

\* faulty variant: a metric counts when it is truthy, so a known 0 does not
get_stock_statistics_truthy(table) ==
    LET active == ActiveStocks(table) IN
    Return([total_stocks        |-> Len(active),
            with_pe_ratio       |-> Len(SelectSeq(active, LAMBDA s : TruthyNum(s.pe_ratio))),
            with_pb_ratio       |-> Len(SelectSeq(active, LAMBDA s : TruthyNum(s.pb_ratio))),
            with_dividend_yield |-> Len(SelectSeq(active, LAMBDA s : TruthyNum(s.dividend_yield)))])

\* lines 233-253
get_stock_statistics(table) ==
    LET active == ActiveStocks(table) IN
    Return([total_stocks        |-> Len(active),
            with_pe_ratio       |-> Len(SelectSeq(active, LAMBDA s : s.pe_ratio # None)),
            with_pb_ratio       |-> Len(SelectSeq(active, LAMBDA s : s.pb_ratio # None)),
            with_dividend_yield |-> Len(SelectSeq(active, LAMBDA s : s.dividend_yield # None))])

----------------------------------------------------------------------------
(* create_default_sectors *)

\* sector_service.py, lines 45-116: the ten default sectors, in list order
default_sectors ==
    << SectorData("Technology",             Some(285), Some(42), Some(18)),
       SectorData("Healthcare",             Some(223), Some(31), Some(24)),
       SectorData("Financials",             Some(128), Some(11), Some(32)),
       SectorData("Consumer Discretionary", Some(187), Some(28), Some(21)),
       SectorData("Consumer Staples",       Some(194), Some(35), Some(28)),
       SectorData("Industrials",            Some(169), Some(21), Some(25)),
       SectorData("Energy",                 Some(142), Some(13), Some(41)),
       SectorData("Materials",              Some(156), Some(18), Some(30)),
       SectorData("Utilities",              Some(183), Some(14), Some(38)),
       SectorData("Real Estate",            Some(251), Some(12), Some(43)) >>

\* the sector names in use, in the order of ORDER BY name
SectorNameOrder ==
    << "Consumer Discretionary", "Consumer Staples", "Energy", "Financials",
       "Healthcare", "Industrials", "Materials", "Real Estate", "Technology",
       "Utilities" >>

RECURSIVE RowsInNameOrder(_, _)
RowsInNameOrder(table, names) ==
    IF names = << >> THEN << >>
    ELSE SelectSeq(table, LAMBDA s : s.name = Head(names))
             \o RowsInNameOrder(table, Tail(names))

\* SectorService.get_all_sectors: select(Sector).order_by(Sector.name)
get_all_sectors(table) == RowsInNameOrder(table, SectorNameOrder)

\* faulty variant: a stored sector with a default name takes the default's
\* averages
RECURSIVE add_missing_sectors_overwriting(_, _)
add_missing_sectors_overwriting(table, defaults) ==
    IF defaults = << >> THEN [sectors |-> table, created |-> << >>]
    ELSE IF get_sector_by_name(table, Head(defaults).name) # None
         THEN LET id == get_sector_by_name(table, Head(defaults).name)[1].id
              IN  add_missing_sectors_overwriting(
                      [table EXCEPT ![id] = [NewSector(table, Head(defaults)) EXCEPT !.id = id]],
                      Tail(defaults))
         ELSE LET sector == NewSector(table, Head(defaults))
                  rest   == add_missing_sectors_overwriting(Append(table, sector),
                                                            Tail(defaults))
              IN  [sectors |-> rest.sectors, created |-> <<sector>> \o rest.created]

\* lines 118-134: each default whose name is not stored yet is added; the
\* table afterwards and the list of created sectors
RECURSIVE add_missing_sectors(_, _)
add_missing_sectors(table, defaults) ==
    IF defaults = << >> THEN [sectors |-> table, created |-> << >>]
    ELSE IF get_sector_by_name(table, Head(defaults).name) # None
         THEN add_missing_sectors(table, Tail(defaults))
         ELSE LET sector == NewSector(table, Head(defaults))
                  rest   == add_missing_sectors(Append(table, sector), Tail(defaults))
              IN  [sectors |-> rest.sectors, created |-> <<sector>> \o rest.created]

\* faulty variant: every default is added, stored or not
RECURSIVE add_all_sectors(_, _)
add_all_sectors(table, defaults) ==
    IF defaults = << >> THEN [sectors |-> table, created |-> << >>]
    ELSE LET sector == NewSector(table, Head(defaults))
             rest   == add_all_sectors(Append(table, sector), Tail(defaults))
         IN  [sectors |-> rest.sectors, created |-> <<sector>> \o rest.created]

create_default_sectors_unchecked(table) == add_all_sectors(table, default_sectors)

\* SectorService.create_default_sectors()
create_default_sectors(table) == add_missing_sectors(table, default_sectors)

----------------------------------------------------------------------------
(* create_mock_stocks and initialize_database *)

MockCount == 4   \* the count initialize_database asks for, 50 in the source
MinStocks == 2   \* the active stocks initialize_database is content with, 10 in the source

MockStock(t, n, sec, pe, pb, div, mcap) ==
    [ticker |-> t, name |-> n, sector |-> sec, pe |-> pe, pb |-> pb,
     div |-> div, mcap |-> mcap]

\* mock_data_service.py, lines 26-298: three of the 24 companies (AAPL, GOOGL
\* with its dividend of 0.0, JPM), with their metrics as listed
mock_companies ==
    << MockStock(<<"A">>,      <<"A">>,      "Technology", 285, 82, 5,  2800000),
       MockStock(<<"B">>,      <<"B">>,      "Technology", 268, 51, 0,  1650000),
       MockStock(<<"A", "B">>, <<"A", "B">>, "Financials", 112, 16, 30, 440000) >>

\* lines 305-333: two of the 27 tickers of the generated stocks
undervalued_tickers == << <<"B", "A">>, <<"B", "B">> >>

\* lines 336-341: outcomes of the random draws for one generated stock, at
\* both ends of their ranges: random.choice(sector_names) gives the first or
\* the last name of the list
StockDraws ==
    { [sector |-> "first", pe |-> 50,  pb |-> 5,  div |-> 20, mcap |-> 1000],
      [sector |-> "last",  pe |-> 150, pb |-> 14, div |-> 60, mcap |-> 50000] }

\* one draw per generated stock
DrawInputs == [1..Len(undervalued_tickers) -> StockDraws]

\* lines 335-355: the generated stocks for the sectors at hand and the draws
additional_stocks(sector_list, draws) ==
    [i \in 1..Len(undervalued_tickers) |->
        MockStock(undervalued_tickers[i], <<"b">>,
                  IF draws[i].sector = "first" THEN sector_list[1].name
                  ELSE sector_list[Len(sector_list)].name,
                  draws[i].pe, draws[i].pb, draws[i].div, draws[i].mcap)]

\* line 358 and the slice of line 364
all_stocks(sector_list, draws, count) ==
    slice(mock_companies
              \o slice(additional_stocks(sector_list, draws), 0,
                       count - Len(mock_companies)),
          0, count)

\* line 361 and sector_lookup.get(name)
sector_lookup(sector_list, name) ==
    IF \E i \in 1..Len(sector_list) : sector_list[i].name = name
    THEN Some(sector_list[CHOOSE i \in 1..Len(sector_list) :
                            sector_list[i].name = name].id)
    ELSE None

\* lines 376-380: `Decimal(str(x)) if x else None`, false for a float 0.0
DecimalIfTruthy(value) == IF value # 0 THEN Some(value) ELSE None

\* lines 371-381
StockCreateOf(stock_data, sector_list) ==
    StockData(stock_data.ticker, stock_data.name,
              sector_lookup(sector_list, stock_data.sector),
              DecimalIfTruthy(stock_data.pe), DecimalIfTruthy(stock_data.pb),
              DecimalIfTruthy(stock_data.div), DecimalIfTruthy(stock_data.mcap))

\* faulty variant: a stock whose ticker is stored is overwritten with the
\* mock data
RECURSIVE create_each_overwriting(_, _, _)
create_each_overwriting(table, todo, sector_list) ==
    IF todo = << >> THEN [stocks |-> table, created |-> << >>]
    ELSE IF get_stock_by_ticker(table, Head(todo).ticker) # None
         THEN LET id == get_stock_by_ticker(table, Head(todo).ticker)[1].id
                  row == NewStock(table, StockCreateOf(Head(todo), sector_list))
              IN  create_each_overwriting([table EXCEPT ![id] = [row EXCEPT !.id = id]],
                                          Tail(todo), sector_list)
         ELSE LET done == create_stock(table, StockCreateOf(Head(todo), sector_list))
                  rest == create_each_overwriting(done.stocks, Tail(todo), sector_list)
              IN  IF done.ret.kind = "raise" THEN rest
                  ELSE [stocks  |-> rest.stocks,
                        created |-> <<done.ret.value>> \o rest.created]

\* lines 363-388: a stock whose ticker is stored is skipped; an exception of
\* create_stock is logged and the loop goes on
RECURSIVE create_each(_, _, _)
create_each(table, todo, sector_list) ==
    IF todo = << >> THEN [stocks |-> table, created |-> << >>]
    ELSE IF get_stock_by_ticker(table, Head(todo).ticker) # None
         THEN create_each(table, Tail(todo), sector_list)
         ELSE LET done == create_stock(table, StockCreateOf(Head(todo), sector_list))
                  rest == create_each(done.stocks, Tail(todo), sector_list)
              IN  IF done.ret.kind = "raise" THEN rest
                  ELSE [stocks  |-> rest.stocks,
                        created |-> <<done.ret.value>> \o rest.created]

\* lines 20-22 of create_mock_stocks and 396-399 of initialize_database: the
\* sector table afterwards and the list the caller goes on with
ensure_sectors(sector_table) ==
    IF get_all_sectors(sector_table) = << >>
    THEN [sectors |-> create_default_sectors(sector_table).sectors,
          list    |-> create_default_sectors(sector_table).created]
    ELSE [sectors |-> sector_table, list |-> get_all_sectors(sector_table)]

\* MockDataService.create_mock_stocks(count): both tables afterwards and the
\* outcome of the call
create_mock_stocks(table, sector_table, count, draws) ==
    LET ensured == ensure_sectors(sector_table)
        loaded  == create_each(table, all_stocks(ensured.list, draws, count),
                               ensured.list)
    IN  [stocks |-> loaded.stocks, sectors |-> ensured.sectors,
         ret |-> Return(loaded.created)]

\* faulty variant: the mock stocks are loaded however many stocks are active
initialize_database_always_loads(table, sector_table, draws) ==
    LET ensured == ensure_sectors(sector_table)
        loaded  == create_mock_stocks(table, ensured.sectors, MockCount, draws)
    IN  [stocks |-> loaded.stocks, sectors |-> loaded.sectors, ret |-> Return(TRUE)]

\* MockDataService.initialize_database()
initialize_database(table, sector_table, draws) ==
    LET ensured == ensure_sectors(sector_table) IN
    IF Len(ActiveStocks(table)) < MinStocks
    THEN LET loaded == create_mock_stocks(table, ensured.sectors, MockCount, draws)
         IN  [stocks |-> loaded.stocks, sectors |-> loaded.sectors,
              ret |-> Return(TRUE)]
    ELSE [stocks |-> table, sectors |-> ensured.sectors, ret |-> Return(TRUE)]

----------------------------------------------------------------------------
(* The state machine *)

NoCall == [op |-> "none"]
Idle   == call = NoCall

\* the concurrent runs of the mock loader, and a run that has not started
Runs == 1..2
NotStarted == [pc |-> "not started"]

Init ==
    /\ stocks = << >>
    /\ sectors = << >>
    /\ call = NoCall
    /\ ret = Return(None)
    /\ pages = << >>
    /\ runs = [run \in Runs |-> NotStarted]

\* StockService.create_stock(stock_data), for the payloads of `inputs`
CreateStockFrom(inputs) ==
    /\ Idle
    /\ \E stock_data \in inputs :
        /\ Len(stocks) < MaxStocks
        /\ call' = [op |-> "create_stock", stock_data |-> stock_data]
        /\ stocks' = create_stock(stocks, stock_data).stocks
        /\ ret' = create_stock(stocks, stock_data).ret
        /\ UNCHANGED <<sectors, pages, runs>>

CreateStock == CreateStockFrom(StockInputs)

\* a soft delete: is_active of one row is cleared
DeactivateStock ==
    /\ Idle
    /\ \E i \in 1..Len(stocks) :
        /\ stocks[i].is_active
        /\ stocks' = [stocks EXCEPT ![i].is_active = FALSE]
        /\ call' = [op |-> "deactivate", id |-> i]
        /\ ret' = Return(None)
        /\ UNCHANGED <<sectors, pages, runs>>

\* StockService.search_and_filter_stocks(filters, sort_by, limit, offset), for
\* the arguments of the given sets
SearchFrom(filter_inputs, sort_inputs, limit_inputs, offset_inputs) ==
    /\ Idle
    /\ \E filters \in filter_inputs, sort_by \in sort_inputs,
          limit \in limit_inputs, offset \in offset_inputs :
        /\ call' = [op |-> "search", filters |-> filters, sort_by |-> sort_by,
                    limit |-> limit, offset |-> offset]
        /\ ret' = search_and_filter_stocks(stocks, filters, sort_by, limit, offset)
        /\ UNCHANGED <<stocks, sectors, pages, runs>>

Search == SearchFrom(FilterInputs, SortInputs, LimitInputs, OffsetInputs)

\* the caller takes the outcome; the next operation may start
TakeResult ==
    /\ ~Idle
    /\ call' = NoCall
    /\ ret' = Return(None)
    /\ pages' = << >>
    /\ UNCHANGED <<stocks, sectors, runs>>

Next == CreateStock \/ DeactivateStock \/ Search \/ TakeResult

Spec == Init /\ [][Next]_vars

----------------------------------------------------------------------------
(* Screening, statistics and lookups over both tables *)

MaxSectors == 2   \* rows the sector table may hold

\* SectorCreate payloads tried: an average P/E above, equal to and below the
\* P/E of the stocks, an unknown one, a zero one, and a name used twice
SectorInputs ==
    { SectorData("Financials", Some(128), Some(11), Some(32)),
      SectorData("Energy",     Some(85),  Some(16), Some(58)),
      SectorData("Utilities",  None,      None,     None),
      SectorData("Financials", Some(0),   Some(0),  Some(0)) }

\* the payloads of StockInputs and two with a negative P/E (a loss per share)
ScreenStockInputs ==
    StockInputs \cup
    { StockData(<<"b", "a">>, <<"B">>, Some(1), Some(-10), Some(12), None, Some(300)),
      StockData(<<"b", "b">>, <<"b">>, Some(1), Some(-10), None,     None, None) }

\* arguments of the lookups: tickers in several casings, ids on both sides of
\* the rows, names stored and not
TickerInputs   == { <<"a">>, <<"A">>, <<"a", "B">>, <<"B", "b">> }
SectorIdInputs == 0..(MaxSectors + 1)
NameInputs     == { "Financials", "Utilities", "financials" }

\* SectorService.create_sector(sector_data), for the payloads of `inputs`
CreateSectorFrom(inputs) ==
    /\ Idle
    /\ \E sector_data \in inputs :
        /\ Len(sectors) < MaxSectors
        /\ call' = [op |-> "create_sector", sector_data |-> sector_data]
        /\ IF NameTaken(sectors, sector_data.name)
           THEN /\ ret' = Raise("IntegrityError")
                /\ UNCHANGED sectors
           ELSE /\ sectors' = Append(sectors, NewSector(sectors, sector_data))
                /\ ret' = Return(NewSector(sectors, sector_data))
        /\ UNCHANGED <<stocks, pages, runs>>

CreateSector == CreateSectorFrom(SectorInputs)

CreateScreenStock == CreateStockFrom(ScreenStockInputs)

\* faulty variant: screening deactivates the stocks it returns
Screen_deactivating_results ==
    /\ Idle
    /\ call' = [op |-> "screen"]
    /\ ret' = screen_undervalued_stocks(stocks, sectors)
    /\ stocks' = [i \in 1..Len(stocks) |->
                    IF \E k \in 1..Len(ret'.value) : ret'.value[k].stock_id = i
                    THEN [stocks[i] EXCEPT !.is_active = FALSE]
                    ELSE stocks[i]]
    /\ UNCHANGED <<sectors, pages, runs>>

\* StockService.screen_undervalued_stocks()
Screen ==
    /\ Idle
    /\ call' = [op |-> "screen"]
    /\ ret' = screen_undervalued_stocks(stocks, sectors)
    /\ UNCHANGED <<stocks, sectors, pages, runs>>

\* StockService.get_stock_statistics()
Statistics ==
    /\ Idle
    /\ call' = [op |-> "statistics"]
    /\ ret' = get_stock_statistics(stocks)
    /\ UNCHANGED <<stocks, sectors, pages, runs>>

\* StockService.get_stock_by_ticker(ticker)
GetStockByTicker ==
    /\ Idle
    /\ \E ticker \in TickerInputs :
        /\ call' = [op |-> "get_stock_by_ticker", ticker |-> ticker]
        /\ ret' = Return(get_stock_by_ticker(stocks, ticker))
        /\ UNCHANGED <<stocks, sectors, pages, runs>>

\* SectorService.get_sector_by_id(sector_id)
GetSectorById ==
    /\ Idle
    /\ \E sector_id \in SectorIdInputs :
        /\ call' = [op |-> "get_sector_by_id", sector_id |-> sector_id]
        /\ ret' = Return(get_sector_by_id(sectors, sector_id))
        /\ UNCHANGED <<stocks, sectors, pages, runs>>

\* SectorService.get_sector_by_name(name)
GetSectorByName ==
    /\ Idle
    /\ \E name \in NameInputs :
        /\ call' = [op |-> "get_sector_by_name", name |-> name]
        /\ ret' = Return(get_sector_by_name(sectors, name))
        /\ UNCHANGED <<stocks, sectors, pages, runs>>

NextScreen ==
    \/ CreateSector \/ CreateScreenStock \/ DeactivateStock
    \/ Screen \/ Statistics
    \/ GetStockByTicker \/ GetSectorById \/ GetSectorByName
    \/ TakeResult

SpecScreen == Init /\ [][NextScreen]_vars

----------------------------------------------------------------------------
(* Loading the mock data next to stocks and sectors created directly *)

\* the counts asked of create_mock_stocks: fewer than the listed companies,
\* and the count of initialize_database
CountInputs == {2, MockCount}

\* the sector created before any default one: a default name, other averages
LoadSectorInputs == { SectorData("Utilities", None, None, None) }

CreateLoadSector == CreateSectorFrom(LoadSectorInputs)

\* the stocks created before any mock one: tickers of mock companies in
\* another casing, with known, unknown and zero metrics
LoadStockInputs ==
    { stock_data \in StockInputs : upper(stock_data.ticker)[1] = "A" }

CreateLoadStock == CreateStockFrom(LoadStockInputs)

MaxInactive == 1   \* rows that may be inactive next to the mock data

DeactivateLoadStock ==
    /\ Len(stocks) - Len(ActiveStocks(stocks)) < MaxInactive
    /\ DeactivateStock

\* MockDataService.create_mock_stocks(count)
CreateMockStocks ==
    /\ Idle
    /\ \E count \in CountInputs, draws \in DrawInputs :
        \E done \in {create_mock_stocks(stocks, sectors, count, draws)} :
            /\ call' = [op |-> "create_mock_stocks", count |-> count]
            /\ stocks' = done.stocks
            /\ sectors' = done.sectors
            /\ UNCHANGED <<pages, runs>>
            /\ ret' = done.ret

\* MockDataService.initialize_database()
InitializeDatabase ==
    /\ Idle
    /\ \E draws \in DrawInputs :
        \E done \in {initialize_database(stocks, sectors, draws)} :
            /\ call' = [op |-> "initialize_database"]
            /\ stocks' = done.stocks
            /\ sectors' = done.sectors
            /\ UNCHANGED <<pages, runs>>
            /\ ret' = done.ret

\* create_mock_stocks(count) called again with the same count, right after
\* the call returned
CreateMockStocksAgain ==
    /\ call.op = "create_mock_stocks"
    /\ "again" \notin DOMAIN call
    /\ \E draws \in DrawInputs :
        \E done \in {create_mock_stocks(stocks, sectors, call.count, draws)} :
            /\ call' = [op |-> "create_mock_stocks", count |-> call.count,
                        again |-> TRUE]
            /\ stocks' = done.stocks
            /\ sectors' = done.sectors
            /\ UNCHANGED <<pages, runs>>
            /\ ret' = done.ret

\* initialize_database() run again, right after the run returned
InitializeDatabaseAgain ==
    /\ call.op = "initialize_database"
    /\ "again" \notin DOMAIN call
    /\ \E draws \in DrawInputs :
        \E done \in {initialize_database(stocks, sectors, draws)} :
            /\ call' = [op |-> "initialize_database", again |-> TRUE]
            /\ stocks' = done.stocks
            /\ sectors' = done.sectors
            /\ UNCHANGED <<pages, runs>>
            /\ ret' = done.ret

\* SectorService.create_default_sectors()
CreateDefaultSectors ==
    /\ Idle
    /\ \E done \in {create_default_sectors(sectors)} :
        /\ call' = [op |-> "create_default_sectors"]
        /\ sectors' = done.sectors
        /\ ret' = Return(done.created)
        /\ UNCHANGED <<stocks, pages, runs>>

NextLoad ==
    \/ CreateLoadStock \/ DeactivateLoadStock \/ CreateLoadSector
    \/ CreateMockStocks \/ InitializeDatabase \/ CreateDefaultSectors
    \/ CreateMockStocksAgain \/ InitializeDatabaseAgain
    \/ TakeResult

SpecLoad == Init /\ [][NextLoad]_vars

----------------------------------------------------------------------------
(* Vocabulary of the properties, stated without the operators above *)

Searched == call.op = "search"
Returned == ret.kind = "return"
Page     == ret.value[1]
Total    == ret.value[2]

Rows(seq) == {seq[i] : i \in 1..Len(seq)}

\* the page holds every result: limit covers the table and offset is 0
WholeList == call.offset = 0 /\ call.limit >= Len(stocks)

SameLetter(c, d) ==
    c = d \/ <<c, d>> \in {<<"a", "A">>, <<"A", "a">>, <<"b", "B">>, <<"B", "b">>}

\* needle occurs in hay when letter case is ignored
ContainsIgnoreCase(hay, needle) ==
    \E i \in 0..(Len(hay) - Len(needle)) :
        \A k \in 1..Len(needle) : SameLetter(hay[i + k], needle[k])

\* the predicates a filter specification f supplies, one by one
MatchesTicker(s, f) ==
    f.ticker_search = None \/ ContainsIgnoreCase(s.ticker, f.ticker_search[1])
MatchesCompany(s, f) ==
    f.company_search = None \/ ContainsIgnoreCase(s.company_name, f.company_search[1])
MatchesSector(s, f)   == f.sector_id = None \/ s.sector_id = f.sector_id
MatchesCategory(s, f) ==
    f.market_cap_category = None \/ s.market_cap_category = f.market_cap_category
MatchesMaxPe(s, f) ==
    f.max_pe_ratio = None \/ s.pe_ratio = None \/ s.pe_ratio[1] <= f.max_pe_ratio[1]
MatchesMaxPb(s, f) ==
    f.max_pb_ratio = None \/ s.pb_ratio = None \/ s.pb_ratio[1] <= f.max_pb_ratio[1]
MatchesMinDividend(s, f) ==
    \/ f.min_dividend_yield = None
    \/ s.dividend_yield # None /\ s.dividend_yield[1] >= f.min_dividend_yield[1]

MatchesExceptMaxPe(s, f) ==
    /\ MatchesTicker(s, f) /\ MatchesCompany(s, f) /\ MatchesSector(s, f)
    /\ MatchesCategory(s, f) /\ MatchesMaxPb(s, f) /\ MatchesMinDividend(s, f)

Matches(s, filters) ==
    filters = None \/ (MatchesExceptMaxPe(s, filters[1]) /\ MatchesMaxPe(s, filters[1]))

\* the active rows that satisfy every supplied predicate, in scan order
Matching == SelectSeq(stocks, LAMBDA s : s.is_active /\ Matches(s, call.filters))

\* the attribute names of a Stock row
StockAttributes ==
    {"id", "ticker", "company_name", "sector_id", "pe_ratio", "pb_ratio",
     "dividend_yield", "market_cap", "market_cap_category", "is_active"}

UnknownSortField ==
    call.sort_by # None /\ call.sort_by[1].field \notin StockAttributes

----------------------------------------------------------------------------
(* C1..C10: search_and_filter_stocks and the category set by create_stock *)

\* C1: a max_pe_ratio filter never excludes a stock whose P/E is unknown (such
\* a stock that satisfies the other predicates is in the result), while under a
\* min_dividend_yield filter no returned stock has an unknown dividend yield and
\* the total counts none.
C1_UnknownPeKept_UnknownDividendDropped ==
    (Searched /\ Returned /\ call.filters # None) =>
        LET f == call.filters[1] IN
        /\ (f.max_pe_ratio # None /\ WholeList) =>
              \A i \in 1..Len(stocks) :
                  ( /\ stocks[i].is_active
                    /\ stocks[i].pe_ratio = None
                    /\ MatchesExceptMaxPe(stocks[i], f) ) => stocks[i] \in Rows(Page)
        /\ f.min_dividend_yield # None =>
              /\ \A s \in Rows(Page) : s.dividend_yield # None
              /\ Total <= Cardinality({i \in 1..Len(stocks) :
                                         stocks[i].dividend_yield # None})

\* both bounds are set; the page keeps a stock with unknown P/E and the table
\* holds an active stock with unknown dividend yield, which the page lacks
C1_Witness ==
    /\ Searched /\ Returned /\ call.filters # None
    /\ call.filters[1].max_pe_ratio # None
    /\ call.filters[1].min_dividend_yield # None
    /\ \E s \in Rows(Page) : s.pe_ratio = None
    /\ \E i \in 1..Len(stocks) :
          /\ stocks[i].is_active /\ stocks[i].dividend_yield = None
          /\ stocks[i] \notin Rows(Page)

\* C2 as claimed: a sort field that names no stock attribute makes search fail
\* with InvalidFilterField and return no page (stated for the searches that
\* have at least two stocks to order).
C2_UnknownSortFieldFails ==
    (Searched /\ UnknownSortField /\ Len(Matching) >= 2 /\ WholeList) =>
        ret = Raise("InvalidFilterField")

\* C2 amended: a sort field that names no stock attribute raises nothing; the
\* search returns the total and the page of the matching stocks in scan order,
\* in both directions.
C2_UnknownSortFieldKeepsScanOrder ==
    (Searched /\ UnknownSortField) =>
        /\ Returned
        /\ Total = Len(Matching)
        /\ Page = SubSeq(Matching, call.offset + 1,
                         Min(call.offset + call.limit, Len(Matching)))

\* a descending sort on an unknown field returns two stocks in scan order
C2_Witness ==
    /\ Searched /\ UnknownSortField /\ Returned
    /\ call.sort_by[1].direction = "desc"
    /\ Len(Page) = 2 /\ Page[1].id < Page[2].id

\* C3 as claimed: every returned stock has is_active equal to the filter's
\* active flag (TRUE when no filter is given).
C3_ActiveFlagHonoured ==
    (Searched /\ Returned) =>
        \A s \in Rows(Page) :
            s.is_active = (IF call.filters = None THEN TRUE
                           ELSE call.filters[1].is_active[1])

\* C4 as claimed: no returned stock has a known market cap below
\* min_market_cap or above max_market_cap.
C4_MarketCapRangeHonoured ==
    (Searched /\ Returned /\ call.filters # None) =>
        \A s \in Rows(Page) :
            s.market_cap # None =>
                /\ call.filters[1].min_market_cap # None =>
                      s.market_cap[1] >= call.filters[1].min_market_cap[1]
                /\ call.filters[1].max_market_cap # None =>
                      s.market_cap[1] <= call.filters[1].max_market_cap[1]

\* C5: sorted by a numeric field, in either direction, no stock with an unknown
\* value precedes a stock with a known value.
C5_UnknownSortsLast ==
    (Searched /\ Returned /\ call.sort_by # None
       /\ call.sort_by[1].field \in DecimalFields \cup {"sector_id"}) =>
        \A i, j \in 1..Len(Page) :
            i < j => ~( /\ Page[i][call.sort_by[1].field] = None
                        /\ Page[j][call.sort_by[1].field] # None )

\* descending by P/E: the stock scanned first has no P/E and is returned last
C5_Witness ==
    /\ Searched /\ Returned /\ call.sort_by # None
    /\ call.sort_by[1] = [field |-> "pe_ratio", direction |-> "desc"]
    /\ Len(Page) = 2
    /\ Page[1].pe_ratio # None /\ Page[2].pe_ratio = None
    /\ Page[2].id < Page[1].id

\* C6: two returned stocks with equal values of the sort field (or both
\* without it) are in scan order, in either direction.
C6_StableSort ==
    (Searched /\ Returned /\ call.sort_by # None) =>
        \A i, j \in 1..Len(Page) :
            ( /\ i < j
              /\ call.sort_by[1].field \in StockAttributes =>
                    Page[i][call.sort_by[1].field] = Page[j][call.sort_by[1].field] )
            => Page[i].id < Page[j].id

\* descending by P/E: two stocks with the same known P/E, in scan order
C6_Witness ==
    /\ Searched /\ Returned /\ call.sort_by # None
    /\ call.sort_by[1] = [field |-> "pe_ratio", direction |-> "desc"]
    /\ Len(Page) = 2
    /\ Page[1].pe_ratio # None /\ Page[1].pe_ratio = Page[2].pe_ratio
    /\ Page[1].id < Page[2].id

\* C7: total_matches is the number of active stocks that satisfy the filter,
\* whatever the limit, offset and sort; with no filter, the number of active
\* stocks.
C7_TotalBeforePagination ==
    (Searched /\ Returned) =>
        /\ Total = Cardinality({i \in 1..Len(stocks) :
                       stocks[i].is_active /\ Matches(stocks[i], call.filters)})
        /\ call.filters \in {None, Some(DefaultFilter)} =>
              Total = Cardinality({i \in 1..Len(stocks) : stocks[i].is_active})

\* a sorted search with a filter: of two active stocks one matches, and the
\* page requested lies beyond it
C7_Witness ==
    /\ Searched /\ Returned /\ call.sort_by # None
    /\ call.filters \notin {None, Some(DefaultFilter)}
    /\ Len(ActiveStocks(stocks)) = 2
    /\ Total = 1 /\ Page = << >> /\ call.limit > 0

\* C8: the page is positions offset .. min(offset+limit, total)-1 of the
\* filtered, sorted list: never longer than limit, and empty with the same
\* total when offset is at or beyond the total.
C8_PageIsSlice ==
    (Searched /\ Returned /\ call.offset >= 0 /\ call.limit >= 0) =>
        LET full == sorted_stocks(filtered_stocks(stocks, call.filters), call.sort_by)
            last == Min(call.offset + call.limit, Len(full))
        IN  /\ Total = Len(full)
            /\ Len(Page) = Max(0, last - call.offset)
            /\ Len(Page) <= call.limit
            /\ \A k \in 1..Len(Page) : Page[k] = full[call.offset + k]
            /\ call.offset >= Total => Page = << >>

\* the second page of size one out of two matches
C8_Witness ==
    /\ Searched /\ Returned
    /\ call.offset = 1 /\ call.limit = 1
    /\ Total = 2 /\ Len(Page) = 1 /\ Page[1].id = 2

\* C9: with ticker_search or company_search set, the stocks returned are
\* exactly the active stocks whose ticker (company name) contains the text
\* when letter case is ignored.
C9_CaseInsensitiveSearch ==
    (Searched /\ Returned /\ call.filters # None /\ WholeList
       /\ (call.filters[1].ticker_search # None
            \/ call.filters[1].company_search # None)) =>
        Rows(Page) = {stocks[i] : i \in {k \in 1..Len(stocks) :
                          stocks[k].is_active /\ Matches(stocks[k], call.filters)}}

\* a lower-case ticker search returns a stock whose stored ticker differs from
\* the text in case, and leaves out a stock that does not contain it
C9_Witness ==
    /\ Searched /\ Returned /\ call.filters # None /\ WholeList
    /\ call.filters[1].ticker_search = Some(<<"a">>)
    /\ \E s \in Rows(Page) : ~contains(s.ticker, <<"a">>)
    /\ \E i \in 1..Len(stocks) : stocks[i].is_active /\ stocks[i] \notin Rows(Page)

\* the category the breakpoints give a market cap
CategoryOf(market_cap) ==
    IF market_cap = None THEN None
    ELSE IF market_cap[1] >= LargeCapMin THEN Some(LARGE_CAP)
    ELSE IF market_cap[1] >= MidCapMin THEN Some(MID_CAP)
    ELSE IF market_cap[1] >= SmallCapMin THEN Some(SMALL_CAP)
    ELSE Some(MICRO_CAP)

\* C10 as claimed: every stored stock has the category of its market cap:
\* Large, Mid, Small by the breakpoints, Micro for every known market cap
\* below the lowest, none only for an unknown market cap.
C10_CategoryFollowsBreakpoints ==
    \A i \in 1..Len(stocks) :
        stocks[i].market_cap_category = CategoryOf(stocks[i].market_cap)

----------------------------------------------------------------------------
(* C11..C16: screen_undervalued_stocks and get_stock_statistics *)

Screened == call.op = "screen"
Results  == ret.value

\* the stored row a result was made from: row ids are positions in the table
StockOfResult(result) == stocks[result.stock_id]

\* the sector rows a stock refers to: none when it has no sector or when its
\* sector_id matches no row
AssignedSectors(stock) ==
    { sectors[j] : j \in { k \in 1..Len(sectors) :
                             stock.sector_id = Some(sectors[k].id) } }

PeBelowKnownAverage(stock) ==
    /\ stock.pe_ratio # None
    /\ \E sector \in AssignedSectors(stock) :
          /\ sector.average_pe_ratio # None
          /\ stock.pe_ratio[1] < sector.average_pe_ratio[1]

PbBelowThreshold(stock) == stock.pb_ratio # None /\ stock.pb_ratio[1] < 15

DividendAtLeastThreshold(stock) ==
    stock.dividend_yield # None /\ stock.dividend_yield[1] >= 30

Weight(flag, points) == IF flag THEN points ELSE 0

\* C11 as claimed: screening never raises, and a result's undervalued_pe flag
\* is true exactly when the stock's P/E is known, its sector exists, that
\* sector's average P/E is known, and the P/E is strictly below the average.
\* Violated: a known sector average of 0 is taken for an unknown one.
C11_PeFlagIffBelowKnownAverage ==
    Screened =>
        /\ Returned
        /\ \A i \in 1..Len(Results) :
              Results[i].is_undervalued_pe
                  = PeBelowKnownAverage(StockOfResult(Results[i]))

C13_ScoreFromFlags ==
    Screened =>
        \A i \in 1..Len(Results) :
            /\ Results[i].overall_score
                  = Weight(Results[i].is_undervalued_pe, 40)
                    + Weight(Results[i].is_undervalued_pb, 40)
                    + Weight(Results[i].has_high_dividend, 20)
            /\ Results[i].overall_score \in {20, 40, 60, 80, 100}

\* a screening with a result of score 100 and one of score 60
C13_Witness ==
    /\ Screened
    /\ \E i, j \in 1..Len(Results) :
          /\ Results[i].is_undervalued_pe
          /\ Results[i].is_undervalued_pb
          /\ Results[i].has_high_dividend
          /\ Results[i].overall_score = 100
          /\ Results[j].overall_score = 60

\* the score of a stored stock by the rules of C11, C12 and C13
ScoreOf(stock) ==
    Weight(PeBelowKnownAverage(stock), 40) + Weight(PbBelowThreshold(stock), 40)
        + Weight(DividendAtLeastThreshold(stock), 20)

\* C14 as claimed: the results are one for each active stock whose score is
\* above 0, and none for any other stock.
\* Violated: a stock whose only criterion is a P/E below a sector average of 0
\* scores 40 and has no result (the divergence of C11).
C14_OneResultPerScoringActiveStock ==
    Screened =>
        /\ \A k \in 1..Len(stocks) :
              (stocks[k].is_active /\ ScoreOf(stocks[k]) > 0)
                  => Cardinality({i \in 1..Len(Results) :
                                    Results[i].stock_id = k}) = 1
        /\ \A i \in 1..Len(Results) :
              /\ Results[i].stock_id \in 1..Len(stocks)
              /\ StockOfResult(Results[i]).is_active
              /\ ScoreOf(StockOfResult(Results[i])) > 0

\* C15: the results are in descending order of overall_score, and results of
\* equal score are in the order of the stock scan (row id order).
C15_DescendingStable ==
    Screened =>
        \A i, j \in 1..Len(Results) :
            i < j =>
                /\ Results[i].overall_score >= Results[j].overall_score
                /\ Results[i].overall_score = Results[j].overall_score
                      => Results[i].stock_id < Results[j].stock_id

\* a screening with two results of equal score
C15_Witness ==
    /\ Screened
    /\ Len(Results) = 2
    /\ Results[1].overall_score = Results[2].overall_score

CountActive(Known(_)) ==
    Cardinality({k \in 1..Len(stocks) : stocks[k].is_active /\ Known(stocks[k])})

\* C16: the statistics are the number of active stocks and the numbers of
\* active stocks with a known P/E, P/B and dividend yield, a known 0 included.
C16_StatisticsCountKnown ==
    call.op = "statistics" =>
        ret = Return([total_stocks        |-> CountActive(LAMBDA s : TRUE),
                      with_pe_ratio       |-> CountActive(LAMBDA s : s.pe_ratio # None),
                      with_pb_ratio       |-> CountActive(LAMBDA s : s.pb_ratio # None),
                      with_dividend_yield |-> CountActive(LAMBDA s : s.dividend_yield # None)])

\* the statistics 1, 1, 0, 0 of one active stock with only the P/E known, next
\* to an inactive stock with every metric known
C16_Witness ==
    /\ call.op = "statistics"
    /\ ret.value = [total_stocks |-> 1, with_pe_ratio |-> 1,
                    with_pb_ratio |-> 0, with_dividend_yield |-> 0]
    /\ \E k \in 1..Len(stocks) :
          /\ ~stocks[k].is_active
          /\ stocks[k].pb_ratio # None
          /\ stocks[k].dividend_yield # None

----------------------------------------------------------------------------
(* C17..C20: tickers, lookups and the values create_stock stores *)

\* every letter of s is a capital
UpperCase(s) == \A k \in 1..Len(s) : s[k] \in {"A", "B"}

\* s and t are the same text when letter case is ignored
SameIgnoringCase(s, t) ==
    Len(s) = Len(t) /\ \A k \in 1..Len(s) : SameLetter(s[k], t[k])

\* C17: whatever create_stock, create_mock_stocks and initialize_database have
\* done, every stored ticker is in upper case and no two rows share a ticker.
C17_TickersUppercaseUnique ==
    \A k, l \in 1..Len(stocks) :
        /\ UpperCase(stocks[k].ticker)
        /\ k # l => stocks[k].ticker # stocks[l].ticker

\* initialize_database has loaded the mock data next to a stock of ticker A
\* that create_stock had stored before
C17_Witness ==
    /\ call.op = "initialize_database"
    /\ \E k, l \in 1..Len(stocks) :
          /\ stocks[k].ticker = <<"A">>
          /\ stocks[k].company_name # <<"A">>
          /\ stocks[l].ticker = <<"B", "A">>

\* C18: create_stock with a ticker that is stored already, in whatever letter
\* case, raises the integrity error of the unique index and leaves the stock
\* table as it was.
C18_DuplicateTickerRejected ==
    [][ ( /\ Idle
          /\ call'.op = "create_stock"
          /\ \E k \in 1..Len(stocks) :
                SameIgnoringCase(stocks[k].ticker, call'.stock_data.ticker) )
        => ( ret' = Raise("IntegrityError") /\ stocks' = stocks ) ]_vars

\* create_stock has raised for a ticker that differs in case from the stored one
C18_Witness ==
    /\ call.op = "create_stock"
    /\ ret = Raise("IntegrityError")
    /\ \E k \in 1..Len(stocks) :
          /\ stocks[k].ticker # call.stock_data.ticker
          /\ SameIgnoringCase(stocks[k].ticker, call.stock_data.ticker)

\* the rows of a table that satisfy Test, as Optional results
Found(table, Test(_)) ==
    { Some(table[k]) : k \in { i \in 1..Len(table) : Test(table[i]) } }

\* what a lookup must return: the row found, or None when there is none
LookupResult(found) == IF found = {} THEN ret.value = None ELSE ret.value \in found

\* C19: a lookup of a stock by ticker, or of a sector by id or by name, returns
\* the stored row or None and never raises; a stock is found by its ticker in
\* any letter case.
C19_LookupsReturnRowOrNone ==
    /\ call.op = "get_stock_by_ticker" =>
          /\ Returned
          /\ LookupResult(Found(stocks,
                 LAMBDA s : SameIgnoringCase(s.ticker, call.ticker)))
    /\ call.op = "get_sector_by_id" =>
          /\ Returned
          /\ LookupResult(Found(sectors, LAMBDA s : s.id = call.sector_id))
    /\ call.op = "get_sector_by_name" =>
          /\ Returned
          /\ LookupResult(Found(sectors, LAMBDA s : s.name = call.name))

\* a stock found by a ticker in another letter case than the stored one
C19_Witness ==
    /\ call.op = "get_stock_by_ticker"
    /\ ret.value # None
    /\ ret.value[1].ticker # call.ticker

\* C20 as claimed: create_stock stores every metric as supplied, a 0 as the
\* known value 0 and a missing one as unknown, and every stock the mock loader
\* creates has the metrics of its mock entry as known values.
\* Violated: the loader stores the dividend yield 0.0 of a mock company as unknown.
C20_ZeroDistinctFromUnknown ==
    /\ (call.op = "create_stock" /\ Returned) =>
          \A f \in DecimalFields :
              stocks[ret.value.id][f] = call.stock_data[f]
    /\ (call.op = "create_mock_stocks" /\ Returned) =>
          \A i \in 1..Len(ret.value), j \in 1..Len(mock_companies) :
              mock_companies[j].ticker = ret.value[i].ticker =>
                  /\ stocks[ret.value[i].id].pe_ratio = Some(mock_companies[j].pe)
                  /\ stocks[ret.value[i].id].pb_ratio = Some(mock_companies[j].pb)
                  /\ stocks[ret.value[i].id].dividend_yield
                        = Some(mock_companies[j].div)
                  /\ stocks[ret.value[i].id].market_cap
                        = Some(mock_companies[j].mcap)


----------------------------------------------------------------------------
(* C21..C30: repeatability, idempotent loading, paging, the screener page, *)
(* concurrent loading                                                      *)

\* C22 as claimed: a search that sorts on an attribute of Stock (or does not
\* sort) returns a page and a total for every table and every filter; it
\* never raises.
C22_SortOnAttributeReturns ==
    (Searched /\ (call.sort_by = None \/ call.sort_by[1].field \in StockAttributes))
        => Returned

\* searches that only filter: every filter tried, no sort, the whole list
FilterSearch == SearchFrom(FilterInputs, {None}, {DefaultLimit}, {0})

NextFilter == CreateStock \/ DeactivateStock \/ FilterSearch \/ TakeResult

SpecFilter == Init /\ [][NextFilter]_vars

\* the predicates of the filter loop by position in the code
Predicate(k, s, f) ==
    CASE k = 1 -> MatchesTicker(s, f)
      [] k = 2 -> MatchesCompany(s, f)
      [] k = 3 -> MatchesSector(s, f)
      [] k = 4 -> MatchesCategory(s, f)
      [] k = 5 -> MatchesMaxPe(s, f)
      [] k = 6 -> MatchesMaxPb(s, f)
      [] k = 7 -> MatchesMinDividend(s, f)

CodeOrder == <<1, 2, 3, 4, 5, 6, 7>>

Rotate(order, n) == [k \in 1..Len(order) |-> order[((k + n - 1) % Len(order)) + 1]]

\* orders of evaluation: the order of the code, its rotations, and each of
\* these backwards
PredicateOrders ==
    {Rotate(CodeOrder, n) : n \in 0..6} \cup {Reverse(Rotate(CodeOrder, n)) : n \in 0..6}

\* the predicates evaluated one after the other in `order` from position k,
\* stopping at the first that fails
RECURSIVE PassesFrom(_, _, _, _)
PassesFrom(s, f, order, k) ==
    IF k > Len(order) THEN TRUE
    ELSE IF ~Predicate(order[k], s, f) THEN FALSE
    ELSE PassesFrom(s, f, order, k + 1)

\* the ids of the scanned (active) rows that pass every supplied predicate
PassingIds(order) ==
    {i \in 1..Len(stocks) :
        /\ stocks[i].is_active
        /\ call.filters # None => PassesFrom(stocks[i], call.filters[1], order, 1)}

\* C26: the stocks that pass the filter are exactly the scanned stocks that
\* satisfy every supplied predicate (unknown P/E and P/B pass, an unknown
\* dividend yield fails, thresholds inclusive), whatever the order in which
\* the predicates are evaluated: the total counts them and the whole list
\* holds them and no other.
C26_FilterIsConjunction ==
    (Searched /\ Returned) =>
        \A order \in PredicateOrders :
            /\ Total = Cardinality(PassingIds(order))
            /\ WholeList => {s.id : s \in Rows(Page)} = PassingIds(order)

\* two predicates are supplied; of two active stocks the one whose dividend
\* yield equals the minimum passes and the other fails
C26_Witness ==
    /\ Searched /\ Returned /\ WholeList /\ call.filters # None
    /\ call.filters[1].max_pe_ratio # None
    /\ call.filters[1].min_dividend_yield # None
    /\ Len(ActiveStocks(stocks)) = 2
    /\ Len(Page) = 1
    /\ Page[1].dividend_yield = call.filters[1].min_dividend_yield


\* the rows of the sector table that carry a name
SectorsNamed(table, name) == {i \in 1..Len(table) : table[i].name = name}

DefaultNames == {default_sectors[k].name : k \in 1..Len(default_sectors)}

CalledDefaultSectors == call.op = "create_default_sectors"

\* C23: create_default_sectors is idempotent: called on an empty store it
\* creates the 10 default sectors; called on a store that holds every default
\* name (as after any earlier call) it creates none and returns an empty list;
\* and after every call the store holds exactly one sector per default name.
C23_DefaultSectorsIdempotent ==
    [][ call'.op = "create_default_sectors" =>
          /\ sectors = << >> =>
                /\ Len(ret'.value) = 10
                /\ sectors' = ret'.value
                /\ \A k \in 1..10 : sectors'[k].name = default_sectors[k].name
          /\ (\A name \in DefaultNames : SectorsNamed(sectors, name) # {}) =>
                /\ ret' = Return(<< >>)
                /\ sectors' = sectors
          /\ \A name \in DefaultNames :
                Cardinality(SectorsNamed(sectors', name)) = 1 ]_vars

\* a later call on the store the first call filled: nothing is created
C23_Witness ==
    /\ CalledDefaultSectors
    /\ ret = Return(<< >>)
    /\ Len(sectors) = 10
    /\ \A k \in 1..10 : sectors[k].name = default_sectors[k].name

\* C30: on a store that already holds sectors, create_default_sectors creates
\* exactly the default sectors whose names are not stored yet, with the
\* default averages, and leaves every stored sector as it was, a sector with
\* a default name and other averages included.
C30_OnlyMissingDefaultsCreated ==
    [][ (call'.op = "create_default_sectors" /\ sectors # << >>) =>
          /\ Len(sectors') >= Len(sectors)
          /\ SubSeq(sectors', 1, Len(sectors)) = sectors
          /\ SubSeq(sectors', Len(sectors) + 1, Len(sectors')) = ret'.value
          /\ {ret'.value[i].name : i \in 1..Len(ret'.value)}
                = DefaultNames \ {sectors[i].name : i \in 1..Len(sectors)}
          /\ \A i \in 1..Len(ret'.value) :
                \E k \in 1..Len(default_sectors) :
                    ret'.value[i] = (default_sectors[k] @@ [id |-> Len(sectors) + i])
      ]_vars

\* the store held "Utilities" without averages: the nine other defaults were
\* created and the stored sector still has no averages
C30_Witness ==
    /\ CalledDefaultSectors
    /\ Len(ret.value) = 9
    /\ sectors[1].name = "Utilities"
    /\ sectors[1].average_pe_ratio = None
    /\ \A i \in 1..Len(ret.value) : ret.value[i].name # "Utilities"


\* the step is a second call of the operation right after a first one
CalledAgain(op) == call.op = op /\ call'.op = op

\* C24: create_mock_stocks inserts no stock whose ticker is stored, on an
\* active row or not: the stored rows stay as they are, the returned stocks
\* are the rows added, their tickers are pairwise distinct and none was
\* stored before; a second call with the same count right after a first one
\* creates no stock.
C24_MockStocksSkipStoredTickers ==
    [][ call'.op = "create_mock_stocks" =>
          /\ Len(stocks') >= Len(stocks)
          /\ SubSeq(stocks', 1, Len(stocks)) = stocks
          /\ SubSeq(stocks', Len(stocks) + 1, Len(stocks')) = ret'.value
          /\ \A i \in 1..Len(ret'.value) :
                /\ \A j \in 1..Len(stocks) : stocks[j].ticker # ret'.value[i].ticker
                /\ \A k \in 1..Len(ret'.value) :
                      k # i => ret'.value[k].ticker # ret'.value[i].ticker
          /\ (CalledAgain("create_mock_stocks") /\ call'.count = call.count) =>
                /\ ret' = Return(<< >>)
                /\ stocks' = stocks ]_vars

\* the second of two calls: the first filled the table up to the count around
\* an inactive stock that carries the ticker of a mock company
C24_Witness ==
    /\ call.op = "create_mock_stocks" /\ "again" \in DOMAIN call
    /\ call.count = MockCount
    /\ ret = Return(<< >>)
    /\ Len(stocks) = MockCount
    /\ ~stocks[1].is_active
    /\ \E k \in 1..Len(mock_companies) : mock_companies[k].ticker = stocks[1].ticker

\* C25: initialize_database creates the default sectors only when no sector
\* is stored and mock stocks only when fewer active stocks than the minimum
\* are stored: on an empty store it leaves the 10 sectors and at least the
\* minimum of active stocks, with the minimum of active stocks stored it
\* creates no stock, and a second run right after a first changes nothing.
C25_InitializeOnlyWhenNeeded ==
    [][ call'.op = "initialize_database" =>
          /\ sectors' # sectors => sectors = << >>
          /\ sectors = << >> => Len(sectors') = 10
          /\ stocks' # stocks => Len(ActiveStocks(stocks)) < MinStocks
          /\ (stocks = << >> /\ sectors = << >>) =>
                /\ Len(sectors') = 10
                /\ Len(ActiveStocks(stocks')) >= MinStocks
          /\ Len(ActiveStocks(stocks)) >= MinStocks => stocks' = stocks
          /\ CalledAgain("initialize_database") =>
                /\ stocks' = stocks
                /\ sectors' = sectors ]_vars

\* the second of two runs on a store that was empty: 10 sectors and the mock
\* stocks are there
C25_Witness ==
    /\ call.op = "initialize_database" /\ "again" \in DOMAIN call
    /\ Len(sectors) = 10
    /\ Len(stocks) = MockCount
    /\ \A i \in 1..Len(stocks) : stocks[i].is_active


----------------------------------------------------------------------------
(* Paging through one search: the caller asks for offset 0, limit, 2*limit, *)
(* ... with the same filter, sort and limit until the total is covered      *)

PageFilterInputs == {None, Some([DefaultFilter EXCEPT !.sector_id = Some(1)])}
PageSortInputs ==
    {None} \cup { Some([field |-> "pe_ratio", direction |-> d]) : d \in {"asc", "desc"} }
PageLimitInputs == 1..MaxLimit

\* the page of an outcome; none when the search raised
PagesOf(outcome) == IF outcome.kind = "return" THEN <<outcome.value[1]>> ELSE << >>

\* search_and_filter_stocks(filters, sort_by, limit, 0)
FirstPage ==
    /\ Idle
    /\ \E filters \in PageFilterInputs, sort_by \in PageSortInputs,
          limit \in PageLimitInputs :
        \E done \in {search_and_filter_stocks(stocks, filters, sort_by, limit, 0)} :
            /\ call' = [op |-> "search", filters |-> filters, sort_by |-> sort_by,
                        limit |-> limit, offset |-> 0]
            /\ ret' = done
            /\ pages' = PagesOf(done)
            /\ UNCHANGED <<stocks, sectors, runs>>

\* the same search at the next offset, while the total is not covered
NextPage ==
    /\ Searched /\ Returned
    /\ call.offset + call.limit < Total
    /\ \E done \in {search_and_filter_stocks(stocks, call.filters, call.sort_by,
                                            call.limit, call.offset + call.limit)} :
            /\ call' = [call EXCEPT !.offset = call.offset + call.limit]
            /\ ret' = done
            /\ pages' = pages \o PagesOf(done)
            /\ UNCHANGED <<stocks, sectors, runs>>

NextPages == CreateStock \/ DeactivateStock \/ FirstPage \/ NextPage \/ TakeResult

SpecPages == Init /\ [][NextPages]_vars

RECURSIVE Concat(_)
Concat(seqs) == IF seqs = << >> THEN << >> ELSE Head(seqs) \o Concat(Tail(seqs))

RECURSIVE SumLen(_)
SumLen(seqs) == IF seqs = << >> THEN 0 ELSE Len(Head(seqs)) + SumLen(Tail(seqs))

\* the last page asked for reaches the total
PagingDone == Searched /\ Returned /\ call.offset + call.limit >= Total

\* C27: with the repository unchanged and filter, sort and limit >= 1 fixed,
\* the pages at offsets 0, limit, 2*limit, ... concatenated in that order are
\* the full filtered, sorted list: every matching stock is in exactly one
\* page, once, and the page lengths sum to total_matches.
C27_PagesPartitionTheList ==
    PagingDone =>
        /\ Concat(pages)
              = sorted_stocks(filtered_stocks(stocks, call.filters), call.sort_by)
        /\ \A i \in 1..Len(Matching) :
              Cardinality({pk \in (1..Len(pages)) \X (1..MaxStocks + 1) :
                              /\ pk[2] <= Len(pages[pk[1]])
                              /\ pages[pk[1]][pk[2]] = Matching[i]}) = 1
        /\ SumLen(pages) = Total

\* two pages of one stock each, sorted by descending P/E against scan order
C27_Witness ==
    /\ PagingDone
    /\ call.sort_by = Some([field |-> "pe_ratio", direction |-> "desc"])
    /\ Len(pages) = 2 /\ Total = 2
    /\ Len(pages[1]) = 1 /\ Len(pages[2]) = 1
    /\ pages[1][1].id > pages[2][1].id


----------------------------------------------------------------------------
(* The read operations, each followed by the same call once more *)

ReadFilterInputs ==
    {None, Some([DefaultFilter EXCEPT !.max_pe_ratio = Some(85),
                                      !.min_dividend_yield = Some(30)])}
ReadSortInputs ==
    {None, Some([field |-> "pe_ratio", direction |-> "desc"]),
           Some([field |-> "market_cap_category", direction |-> "asc"])}

ReadSearch == SearchFrom(ReadFilterInputs, ReadSortInputs, {DefaultLimit}, {0})

\* the call at hand has returned and was not repeated yet
Repeatable(op) == call.op = op /\ "again" \notin DOMAIN call

\* search_and_filter_stocks called again with the same arguments
SearchAgain ==
    /\ Repeatable("search")
    /\ call' = [op |-> "search", filters |-> call.filters, sort_by |-> call.sort_by,
                limit |-> call.limit, offset |-> call.offset, again |-> TRUE]
    /\ ret' = search_and_filter_stocks(stocks, call.filters, call.sort_by,
                                       call.limit, call.offset)
    /\ UNCHANGED <<stocks, sectors, pages, runs>>

\* screen_undervalued_stocks called again
ScreenAgain ==
    /\ Repeatable("screen")
    /\ call' = [op |-> "screen", again |-> TRUE]
    /\ ret' = screen_undervalued_stocks(stocks, sectors)
    /\ UNCHANGED <<stocks, sectors, pages, runs>>

\* get_stock_statistics called again
StatisticsAgain ==
    /\ Repeatable("statistics")
    /\ call' = [op |-> "statistics", again |-> TRUE]
    /\ ret' = get_stock_statistics(stocks)
    /\ UNCHANGED <<stocks, sectors, pages, runs>>

NextRead ==
    \/ CreateSector \/ CreateStock \/ DeactivateStock
    \/ ReadSearch \/ Screen \/ Statistics
    \/ SearchAgain \/ ScreenAgain \/ StatisticsAgain
    \/ TakeResult

SpecRead == Init /\ [][NextRead]_vars

ReadOperations == {"search", "screen", "statistics"}

\* the arguments of a call: the call without the mark of its repetition
Arguments(c) == [f \in DOMAIN c \ {"again"} |-> c[f]]

----------------------------------------------------------------------------
(* StockScreener.screen_undervalued, the handler of the screener page *)

\* stock_screener.py, lines 352-365: the score the page sorts by; the stock's
\* metrics and the sector average are tested by truthiness
score_stock(stock, sector_table) ==
    (IF TruthyNum(stock.pe_ratio) /\ TruthyNum(stock.sector_id)
     THEN LET sector == get_sector_by_id(sector_table, stock.sector_id[1]) IN
          IF sector # None /\ TruthyNum(sector[1].average_pe_ratio)
             /\ stock.pe_ratio[1] < sector[1].average_pe_ratio[1]
          THEN 40 ELSE 0
     ELSE 0)
    + (IF TruthyNum(stock.pb_ratio) /\ stock.pb_ratio[1] < 15 THEN 40 ELSE 0)
    + (IF TruthyNum(stock.dividend_yield) /\ stock.dividend_yield[1] >= 30
       THEN 20 ELSE 0)

\* the sort key of line 367: an int
IntKey(v) == [type |-> "int", inf |-> 0, val |-> v]

\* lines 345-349: the active stocks that have a screen result
undervalued_stocks(table, results) ==
    SelectSeq(ActiveStocks(table),
              LAMBDA stock : \E k \in 1..Len(results) : results[k].stock_id = stock.id)

\* line 367: undervalued_stocks.sort(key=score_stock, reverse=True)
sort_by_score_stock(list, sector_table) ==
    LET keyed == [i \in 1..Len(list) |->
                    <<IntKey(score_stock(list[i], sector_table)), list[i]>>]
        sorted == list_sort(keyed, TRUE)
    IN  [i \in 1..Len(sorted) |-> sorted[i][2]]

\* lines 333-377: the results of the engine and the list put on display, none
\* when the handler returns early for want of results
screen_undervalued(table, sector_table) ==
    LET results == screen_undervalued_stocks(table, sector_table).value IN
    [screen_results |-> results,
     current_stocks |->
        IF results = << >> THEN None
        ELSE Some(sort_by_score_stock(undervalued_stocks(table, results),
                                      sector_table))]

\* the payloads of StockInputs and one whose only known metric is a P/B of 0
UiStockInputs ==
    StockInputs \cup
    { StockData(<<"b", "a">>, <<"a">>, None, None, Some(0), None, None) }

CreateUiStock == CreateStockFrom(UiStockInputs)

\* StockScreener.screen_undervalued()
ScreenUndervalued ==
    /\ Idle
    /\ call' = [op |-> "screen_undervalued"]
    /\ ret' = Return(screen_undervalued(stocks, sectors))
    /\ UNCHANGED <<stocks, sectors, pages, runs>>

NextUi ==
    \/ CreateSector \/ CreateUiStock \/ DeactivateStock
    \/ ScreenUndervalued
    \/ TakeResult

SpecUi == Init /\ [][NextUi]_vars

\* the page has put a list on display
Displayed == call.op = "screen_undervalued" /\ ret.value.current_stocks # None
Shown     == ret.value.current_stocks[1]

\* the overall_score the engine gave the stock with this id
EngineScore(id) ==
    LET results == ret.value.screen_results
    IN  results[CHOOSE k \in 1..Len(results) : results[k].stock_id = id].overall_score

\* C28 as claimed: for every stock on display, score_stock equals the
\* overall_score of the engine's result for that stock, and the displayed
\* order is descending in the engine's score.
\* Violated: a stock with a known P/B of 0 scores 40 in the engine and 0 on
\* the page.
C28_PageScoreIsEngineScore ==
    Displayed =>
        /\ \A i \in 1..Len(Shown) :
              score_stock(Shown[i], sectors) = EngineScore(Shown[i].id)
        /\ \A i, j \in 1..Len(Shown) :
              i < j => EngineScore(Shown[i].id) >= EngineScore(Shown[j].id)


----------------------------------------------------------------------------
(* Two runs of create_mock_stocks on the same store.  Every call of a       *)
(* service opens its own session, so a run is a sequence of steps, one per  *)
(* call, and the steps of the two runs interleave.                          *)

\* the position and the locals of a run: `sectors` of line 21 or 23, the
\* part of all_stocks[:count] still to go, and created_stocks
Run(pc, sector_list, todo, created) ==
    [pc |-> pc, sector_list |-> sector_list, todo |-> todo, created |-> created]

\* lines 302-358 with the sectors at hand: random.choice(sector_names) raises
\* IndexError on an empty list, outside the try of the loop; otherwise the
\* loop starts with the lookup of the first stock
Prepared(sector_list, draws) ==
    IF sector_list = << >>
    THEN Run("aborted", sector_list, << >>, << >>)
    ELSE LET todo == all_stocks(sector_list, draws, MockCount)
         IN  Run(IF todo = << >> THEN "done" ELSE "lookup", sector_list, todo, << >>)

\* the loop moves on to the next stock, or ends
Advanced(run, created) ==
    Run(IF Tail(run.todo) = << >> THEN "done" ELSE "lookup",
        run.sector_list, Tail(run.todo), created)

\* lines 20-22: the run starts with get_all_sectors(); when that list is
\* empty the next call is create_default_sectors()
RunGetAllSectors(r) ==
    /\ Idle
    /\ runs[r].pc = "not started"
    /\ \E draws \in DrawInputs :
          runs' = [runs EXCEPT ![r] =
                      IF get_all_sectors(sectors) = << >>
                      THEN Run("create sectors", << >>, << >>, << >>)
                      ELSE Prepared(get_all_sectors(sectors), draws)]
    /\ UNCHANGED <<stocks, sectors, call, ret, pages>>

\* line 23: sectors = SectorService.create_default_sectors(), the list of the
\* sectors this call created
RunCreateDefaultSectors(r) ==
    /\ Idle
    /\ runs[r].pc = "create sectors"
    /\ \E draws \in DrawInputs :
        \E done \in {create_default_sectors(sectors)} :
            /\ sectors' = done.sectors
            /\ runs' = [runs EXCEPT ![r] = Prepared(done.created, draws)]
    /\ UNCHANGED <<stocks, call, ret, pages>>

\* lines 366-369: existing = get_stock_by_ticker(ticker); a stored ticker is
\* skipped
RunLookup(r) ==
    /\ Idle
    /\ runs[r].pc = "lookup"
    /\ runs' = [runs EXCEPT ![r] =
                  IF get_stock_by_ticker(stocks, Head(runs[r].todo).ticker) # None
                  THEN Advanced(runs[r], runs[r].created)
                  ELSE [runs[r] EXCEPT !.pc = "insert"]]
    /\ UNCHANGED <<stocks, sectors, call, ret, pages>>

\* lines 371-388: create_stock(stock_create); its exception is logged and the
\* loop goes on
RunInsert(r) ==
    /\ Idle
    /\ runs[r].pc = "insert"
    /\ \E done \in {create_stock(stocks, StockCreateOf(Head(runs[r].todo),
                                                      runs[r].sector_list))} :
            /\ stocks' = done.stocks
            /\ runs' = [runs EXCEPT ![r] =
                          Advanced(runs[r],
                                   IF done.ret.kind = "raise" THEN runs[r].created
                                   ELSE Append(runs[r].created, done.ret.value))]
    /\ UNCHANGED <<sectors, call, ret, pages>>

\* the store is set up before a run starts
NoRunStarted == \A r \in Runs : runs[r] = NotStarted

RaceStockInputs == {stock_data \in LoadStockInputs : stock_data.ticker = <<"a">>}

CreateRaceSector == NoRunStarted /\ CreateLoadSector
CreateRaceStock  == NoRunStarted /\ CreateStockFrom(RaceStockInputs)

NextRace ==
    \/ CreateRaceSector \/ CreateRaceStock
    \/ \E r \in Runs : RunGetAllSectors(r)
    \/ \E r \in Runs : RunCreateDefaultSectors(r)
    \/ \E r \in Runs : RunLookup(r)
    \/ \E r \in Runs : RunInsert(r)
    \/ TakeResult

SpecRace == Init /\ [][NextRace]_vars

UniqueTickers ==
    \A i, j \in 1..Len(stocks) : i # j => stocks[i].ticker # stocks[j].ticker

\* C29 as claimed: under every interleaving of two create_mock_stocks runs on
\* the same store no two stored stocks share a ticker and neither run aborts.
\* Violated: on a store without sectors both runs read an empty sector list;
\* the run whose create_default_sectors comes second gets an empty list back
\* and aborts with IndexError.
C29_RacingLoadersNeverAbort ==
    /\ UniqueTickers
    /\ \A r \in Runs : runs[r].pc # "aborted"

====
